---- MODULE Spec2Model ----
(***************************************************************************)
(* Model of the notebook helper functions of GDELT-Events-Analysis:        *)
(*   setup_authentication, initialize_bigquery_client, extract_table,      *)
(*   call_openai_api and get_latest_file_by_keyword.                       *)
(*                                                                         *)
(* Every function is synchronous and single-threaded, so one call is one   *)
(* action.  The result of a call is computed by an operator that follows   *)
(* the function's code statement by statement; what the libraries and the  *)
(* remote services answer (an exception kind, a result table, a directory  *)
(* listing) is an input of the action.  Each call records the sequence of  *)
(* external effects it performed in outcome.events.                        *)
(*                                                                         *)
(* Python values are records tagged with their type:                       *)
(*   [t |-> "none"], [t |-> "str", s |-> <<atoms>>], [t |-> "int", n |-> i],*)
(*   [t |-> "bool", b |-> B], [t |-> "float", n |-> i], [t |-> "client"..] *)
(* A str is a sequence of atoms: indivisible pieces of text.  The          *)
(* characters the code or its libraries look at ("/", ".", "=", "*", "?",  *)
(* "[", "]") are always atoms of their own.                                *)
(***************************************************************************)
EXTENDS Integers, Sequences, FiniteSets, TLC

VARIABLES pc, call, outcome, pre, environ, keyfs, csvfs, listing

vars == <<pc, call, outcome, pre, environ, keyfs, csvfs, listing>>

----------------------------------------------------------------------------
(* Python values *)

PyNone == [t |-> "none"]
PyStr(atoms) == [t |-> "str", s |-> atoms]
PyInt(i) == [t |-> "int", n |-> i]
PyBool(b) == [t |-> "bool", b |-> b]
PyFloat(i) == [t |-> "float", n |-> i]

\* An assignment to a local: e is evaluated once, Body gets its value
With(e, Body(_)) == CHOOSE r \in {Body(x) : x \in {e}} : TRUE

\* bool(v): the truth value `not v` negates
Truthy(v) ==
    CASE v.t = "none" -> FALSE
      [] v.t = "str" -> v.s # <<>>
      [] v.t = "int" -> v.n # 0
      [] v.t = "float" -> v.n # 0
      [] v.t = "bool" -> v.b
      [] OTHER -> TRUE

\* isinstance(v, str)
IsStr(v) == v.t = "str"

\* isinstance(v, int): bool is a subclass of int
IsInt(v) == v.t \in {"int", "bool"}

\* the integer an int or a bool compares as
IntOf(v) == IF v.t = "bool" THEN (IF v.b THEN 1 ELSE 0) ELSE v.n

----------------------------------------------------------------------------
(* Exception classes: each class and its base class *)

Base ==
    [Forbidden |-> "GoogleAPIError", NotFound |-> "GoogleAPIError",
     BadRequest |-> "GoogleAPIError", GoogleAPIError |-> "Exception",
     ValueError |-> "Exception", TypeError |-> "Exception",
     OSError |-> "Exception", FileNotFoundError |-> "OSError",
     PermissionError |-> "OSError", NotADirectoryError |-> "OSError",
     RuntimeError |-> "Exception", AttributeError |-> "Exception",
     DefaultCredentialsError |-> "Exception",
     OpenAIError |-> "Exception", APIError |-> "OpenAIError",
     APIConnectionError |-> "APIError", AuthenticationError |-> "APIError",
     RateLimitError |-> "APIError", Exception |-> "BaseException"]

RECURSIVE IsInstance(_, _)
\* does `except cls` catch an exception of class e
IsInstance(e, cls) ==
    IF e = cls THEN TRUE
    ELSE IF e \in DOMAIN Base THEN IsInstance(Base[e], cls)
    ELSE FALSE

NoExc == "-"

----------------------------------------------------------------------------
(* Paths.  A path string is a sequence of atoms in which "/" separates the
   components. *)

Cwd == <<"work">>

RECURSIVE Components(_, _)
\* the components of a path string, "/" removed (cur: the component being read)
Components(atoms, cur) ==
    IF atoms = <<>> THEN (IF cur = <<>> THEN <<>> ELSE <<cur>>)
    ELSE IF Head(atoms) = "/"
         THEN (IF cur = <<>> THEN <<>> ELSE <<cur>>) \o Components(Tail(atoms), <<>>)
         ELSE Components(Tail(atoms), cur \o <<Head(atoms)>>)

IsAbs(atoms) == atoms # <<>> /\ Head(atoms) = "/"

RECURSIVE NormParts(_, _)
\* os.path.normpath of an absolute path: "." dropped, ".." removes the
\* component before it (lexically), nothing above the root
NormParts(comps, acc) ==
    IF comps = <<>> THEN acc
    ELSE LET c == Head(comps) IN
         IF c = <<".">> THEN NormParts(Tail(comps), acc)
         ELSE IF c = <<".", ".">>
              THEN NormParts(Tail(comps),
                             IF acc = <<>> THEN acc ELSE SubSeq(acc, 1, Len(acc) - 1))
              ELSE NormParts(Tail(comps), Append(acc, c))

RECURSIVE JoinParts(_)
\* the absolute path string of a list of components
JoinParts(parts) ==
    IF parts = <<>> THEN <<>>
    ELSE <<"/">> \o Head(parts) \o JoinParts(Tail(parts))

\* the path left as it was given
abspath_AsGiven(atoms) == atoms

\* os.path.abspath(p): normpath(join(cwd, p))
abspath(atoms) ==
    LET comps == Components(atoms, <<>>)
        full == IF IsAbs(atoms) THEN comps ELSE <<Cwd>> \o comps
        norm == NormParts(full, <<>>)
    IN  IF norm = <<>> THEN <<"/">> ELSE JoinParts(norm)

\* Directories that exist (as component lists); the root is <<>>
Dirs == {<<>>, <<Cwd>>}

KeyFile == <<"/", "work", "/", "key", ".", "json">>
AltFile == <<"/", "work", "/", "alt", ".", "json">>
KeyFiles == {KeyFile, AltFile}
KeyStates == {"absent", "noread", "ok"}

RECURSIVE Walk(_, _, _)
\* what the operating system finds at a path, resolved component by component
\* from cur: "dir", the state of a key file, or "absent"
Walk(comps, cur, kfs) ==
    IF comps = <<>> THEN "dir"
    ELSE LET c == Head(comps) IN
         IF c = <<".">> THEN Walk(Tail(comps), cur, kfs)
         ELSE IF c = <<".", ".">>
              THEN Walk(Tail(comps),
                        IF cur = <<>> THEN cur ELSE SubSeq(cur, 1, Len(cur) - 1), kfs)
              ELSE LET nxt == Append(cur, c) IN
                   IF nxt \in Dirs THEN Walk(Tail(comps), nxt, kfs)
                   ELSE IF JoinParts(nxt) \in DOMAIN kfs /\ Tail(comps) = <<>>
                        THEN kfs[JoinParts(nxt)]
                        ELSE "absent"

Stat(atoms, kfs) ==
    Walk(Components(atoms, <<>>), IF IsAbs(atoms) THEN <<>> ELSE <<Cwd>>, kfs)

\* os.path.exists(p)
exists(atoms, kfs) == Stat(atoms, kfs) # "absent"

\* os.access(p, os.R_OK)
access_R_OK(atoms, kfs) == Stat(atoms, kfs) \in {"ok", "dir"}

----------------------------------------------------------------------------
(* os.environ: a mapping whose domain is the set of variables that are set *)

GAC == <<"GOOGLE_APPLICATION_CREDENTIALS">>
OtherVar == <<"OTHER_VAR">>
EnvNames == {GAC, OtherVar}

\* os.environ[name] = value: the key must be a str (TypeError) that putenv
\* accepts (ValueError for a name holding "="); only then is the mapping changed
EnvironSet(env, name, value) ==
    IF ~IsStr(name) THEN [exc |-> "TypeError", environ |-> env]
    ELSE IF \E i \in 1..Len(name.s) : name.s[i] = "="
         THEN [exc |-> "ValueError", environ |-> env]
         ELSE [exc |-> NoExc,
               environ |-> [n \in DOMAIN env \cup {name.s} |->
                              IF n = name.s THEN value ELSE env[n]]]

----------------------------------------------------------------------------
(* setup_authentication.py *)

\* setup_authentication(key_path, env_var) in the environment env and the
\* file system kfs: the exception it leaves with (NoExc: returns None), the
\* environment after it, and the effects performed
setup_authentication(key_path, env_var, env, kfs) ==
    IF ~Truthy(key_path) \/ ~IsStr(key_path)
    THEN [exc |-> "ValueError", environ |-> env, events |-> <<>>]
    ELSE With(abspath(key_path.s), LAMBDA abs :
         IF ~exists(abs, kfs)
         THEN [exc |-> "FileNotFoundError", environ |-> env, events |-> <<"exists">>]
         ELSE IF Truthy(env_var)
              THEN With(EnvironSet(env, env_var, abs), LAMBDA set :
                   [exc |-> set.exc, environ |-> set.environ,
                    events |-> <<"exists", "environ_set">>])
              ELSE [exc |-> NoExc, environ |-> env, events |-> <<"exists">>])

----------------------------------------------------------------------------
(* initialize_client.py *)

\* A bigquery.Client: what it was built with, and whether close() was called
Client(project, credentials, closed) ==
    [t |-> "client", project |-> project, location |-> "US",
     credentials |-> credentials, closed |-> closed]

\* the finally clause (lines 77-83) for the local `client`: close() is called
\* when auto_close is set and a client was built; what close() raises
\* (closeExc) is caught and logged, the client then being left as it was
Finally(auto_close, client, closeExc) ==
    IF auto_close /\ client.t = "client"
    THEN [client |-> IF closeExc = NoExc THEN [client EXCEPT !.closed = TRUE]
                     ELSE client,
          events |-> <<"close">>]
    ELSE [client |-> client, events |-> <<>>]

\* the except clauses (lines 65-76): every Exception raised inside the try
\* leaves as RuntimeError with the original as its cause; an interrupt,
\* which is no Exception, passes through
Wrap(e) ==
    IF IsInstance(e, "NotFound") THEN [exc |-> "RuntimeError", cause |-> e]
    ELSE IF IsInstance(e, "Forbidden") THEN [exc |-> "RuntimeError", cause |-> e]
    ELSE IF IsInstance(e, "GoogleAPIError") THEN [exc |-> "RuntimeError", cause |-> e]
    ELSE IF IsInstance(e, "Exception") THEN [exc |-> "RuntimeError", cause |-> e]
    ELSE [exc |-> e, cause |-> NoExc]

\* the try body (lines 47-63): the exception it raises (NoExc: it reached
\* `return client`), the local `client` at that point, the environment and
\* the effects.  w holds what the libraries answer: w.creds for
\* from_service_account_file, w.ctor for bigquery.Client(...), w.interrupt
\* for an interrupt arriving once `client` is assigned, w.close for close().
TryBody(project_id, credentials_path, env_var, env, kfs, w) ==
    LET stop(e, en, ev) == [exc |-> e, client |-> PyNone, environ |-> en, events |-> ev]
        construct(creds, en, ev) ==
            IF w.ctor # NoExc THEN stop(w.ctor, en, ev \o <<"Client">>)
            ELSE [exc |-> w.interrupt,
                  client |-> Client(project_id, creds, FALSE),
                  environ |-> en, events |-> ev \o <<"Client">>]
    IN  IF ~Truthy(credentials_path) THEN construct("default", env, <<>>)
        ELSE With(setup_authentication(credentials_path, env_var, env, kfs),
             LAMBDA auth :
             With(<<"setup_authentication">> \o auth.events, LAMBDA ev1 :
             IF auth.exc # NoExc THEN stop(auth.exc, auth.environ, ev1)
             ELSE IF ~access_R_OK(credentials_path.s, kfs)
                  THEN stop("PermissionError", auth.environ, ev1 \o <<"access">>)
             ELSE IF w.creds # NoExc
                  THEN stop(w.creds, auth.environ,
                            ev1 \o <<"access", "from_service_account_file">>)
             ELSE construct(abspath(credentials_path.s), auth.environ,
                            ev1 \o <<"access", "from_service_account_file">>)))

\* the check with the type test left out
InvalidProjectId_NoTypeCheck(project_id) == ~Truthy(project_id)

\* line 41: `not project_id or not isinstance(project_id, str)`
InvalidProjectId(project_id) == ~Truthy(project_id) \/ ~IsStr(project_id)

\* initialize_bigquery_client(project_id, credentials_path, env_var, auto_close)
initialize_bigquery_client(project_id, credentials_path, env_var, auto_close, env, kfs, w) ==
    IF InvalidProjectId(project_id)
    THEN [exc |-> "ValueError", cause |-> NoExc, value |-> PyNone,
          environ |-> env, events |-> <<>>]
    ELSE With(TryBody(project_id, credentials_path, env_var, env, kfs, w),
         LAMBDA body :
         With(Finally(auto_close, body.client, w.close), LAMBDA fin :
         IF body.exc = NoExc
         THEN [exc |-> NoExc, cause |-> NoExc, value |-> fin.client,
               environ |-> body.environ, events |-> body.events \o fin.events]
         ELSE With(Wrap(body.exc), LAMBDA raised :
              [exc |-> raised.exc, cause |-> raised.cause, value |-> PyNone,
               environ |-> body.environ, events |-> body.events \o fin.events])))

----------------------------------------------------------------------------
(* extract_table.py *)

MAX_DATA_SIZE_GB == 2

\* 1024**3
GiB == 1073741824

\* A byte count n is held as [gib |-> n \div GiB, rem |-> n % GiB]: the
\* limit itself, 2 * 1024**3, does not fit the 32-bit integers TLC computes with
MAX_DATA_SIZE_BYTES == [gib |-> MAX_DATA_SIZE_GB, rem |-> 0]

\* a > b on byte counts
BytesGreater(a, b) == a.gib > b.gib \/ (a.gib = b.gib /\ a.rem > b.rem)

\* the comparison made in whole GiB
TooLarge_WholeGiB(data_size) == data_size.gib > MAX_DATA_SIZE_GB

\* line 114: data_size > MAX_DATA_SIZE_BYTES
TooLarge(data_size) == BytesGreater(data_size, MAX_DATA_SIZE_BYTES)

\* os.path.join(a, b)
join(a, b) ==
    IF IsAbs(b) THEN b
    ELSE IF a = <<>> \/ a[Len(a)] = "/" THEN a \o b
    ELSE a \o <<"/">> \o b

\* lines 92-93: the output file name; ts is the formatted time of the call
OutputFile(output_dir, table_name, suffix_timestamp, ts) ==
    LET timestamp == IF suffix_timestamp THEN <<ts>> ELSE <<>>
        suffix == IF timestamp # <<>> THEN <<"_">> \o timestamp ELSE <<>>
    IN  join(output_dir.s, table_name.s \o suffix \o <<".", "csv">>)

\* the handlers with every API error taken for the billing-cap case
Handle_AnyApiError(e) ==
    IF IsInstance(e, "GoogleAPIError") THEN [exc |-> NoExc, cause |-> NoExc]
    ELSE IF IsInstance(e, "Exception") THEN [exc |-> "RuntimeError", cause |-> e]
    ELSE [exc |-> e, cause |-> NoExc]

\* the except clauses of lines 137-149: what an exception raised inside the
\* try leaves the call with
Handle(e) ==
    IF IsInstance(e, "Forbidden") THEN [exc |-> NoExc, cause |-> NoExc]
    ELSE IF IsInstance(e, "GoogleAPIError") THEN [exc |-> "RuntimeError", cause |-> e]
    ELSE IF IsInstance(e, "Exception") THEN [exc |-> "RuntimeError", cause |-> e]
    ELSE [exc |-> e, cause |-> NoExc]

\* the empty-result test with export_empty ignored
SkipEmpty_Always(df, export_empty) == df.rows = 0

\* lines 122-126: an empty table is not exported unless export_empty
SkipEmpty(df, export_empty) == df.rows = 0 /\ ~export_empty

\* the try body with the CSV written ahead of the df.empty test
ExportBody_WriteBeforeEmptyCheck(a, output_file, cfs, w) ==
    LET out(e, v, files, ev) == [exc |-> e, value |-> v, csvfs |-> files, events |-> ev]
        df == w.df
        evq == <<"query">>
        evd == evq \o <<"to_dataframe">>
        evs == IF a.limit_bytes THEN evd \o <<"memory_usage">> ELSE evd
        eve == IF df.rows = 0 THEN evs \o <<"to_csv", "warn_empty">>
                              ELSE evs \o <<"to_csv">>
        written == [cfs EXCEPT !.files =
                       [f \in DOMAIN cfs.files \cup {output_file} |->
                          IF f = output_file
                          THEN [rows |-> df.rows, header |-> TRUE,
                                complete |-> w.fault # "to_csv"]
                          ELSE cfs.files[f]]]
    IN  IF w.fault = "query" THEN out(w.exc, PyNone, cfs, evq)
        ELSE IF w.fault = "to_dataframe" THEN out(w.exc, PyNone, cfs, evd)
        ELSE IF a.limit_bytes /\ TooLarge(df.size)
             THEN out(NoExc, PyNone, cfs, evs \o <<"warn_oversize">>)
        ELSE IF w.fault = "to_csv"
             THEN out(w.exc, PyNone, IF w.partial THEN written ELSE cfs,
                      evs \o <<"to_csv">>)
        ELSE IF SkipEmpty(df, a.export_empty) THEN out(NoExc, PyNone, written, eve)
        ELSE out(NoExc, PyStr(output_file), written, eve)

\* lines 95-135, the try body: the exception raised inside it (NoExc: none),
\* the value returned, the output files afterwards and the effects.
\* w.fault names the step that raises w.exc ("-": none does), w.df is the
\* table the query yields: its row count and its memory_usage(deep=True).sum()
ExportBody(a, output_file, cfs, w) ==
    LET out(e, v, files, ev) == [exc |-> e, value |-> v, csvfs |-> files, events |-> ev]
        df == w.df
        evq == <<"query">>
        evd == evq \o <<"to_dataframe">>
        evs == IF a.limit_bytes THEN evd \o <<"memory_usage">> ELSE evd
        eve == IF df.rows = 0 THEN evs \o <<"warn_empty">> ELSE evs
        written == [cfs EXCEPT !.files =
                       [f \in DOMAIN cfs.files \cup {output_file} |->
                          IF f = output_file
                          THEN [rows |-> df.rows, header |-> TRUE,
                                complete |-> w.fault # "to_csv"]
                          ELSE cfs.files[f]]]
    IN  IF w.fault = "query" THEN out(w.exc, PyNone, cfs, evq)
        ELSE IF w.fault = "to_dataframe" THEN out(w.exc, PyNone, cfs, evd)
        ELSE IF a.limit_bytes /\ TooLarge(df.size)
             THEN out(NoExc, PyNone, cfs, evs \o <<"warn_oversize">>)
        ELSE IF SkipEmpty(df, a.export_empty) THEN out(NoExc, PyNone, cfs, eve)
        ELSE IF w.fault = "to_csv"
             THEN out(w.exc, PyNone, IF w.partial THEN written ELSE cfs,
                      eve \o <<"to_csv">>)
        ELSE out(NoExc, PyStr(output_file), written, eve \o <<"to_csv">>)

\* os.makedirs(output_dir, exist_ok=True): a missing directory is created
makedirs(dir, cfs) ==
    IF cfs.dirs[dir] = "absent" THEN [cfs EXCEPT !.dirs[dir] = "rw"] ELSE cfs

\* extract_table(query, table_name, output_dir, client, project_id,
\*               credentials_path, env_var, suffix_timestamp, export_empty,
\*               maximum_bytes_billed, limit_bytes), the arguments in a
extract_table(a, env, kfs, cfs, w) ==
    LET leave(e, c, v, en, files, ev) ==
            [exc |-> e, cause |-> c, value |-> v, environ |-> en,
             csvfs |-> files, events |-> ev]
    IN
    IF ~Truthy(a.query) \/ ~IsStr(a.query)
    THEN leave("ValueError", NoExc, PyNone, env, cfs, <<>>)
    ELSE IF ~Truthy(a.table_name) \/ ~IsStr(a.table_name)
    THEN leave("ValueError", NoExc, PyNone, env, cfs, <<>>)
    ELSE IF ~Truthy(a.output_dir) \/ ~IsStr(a.output_dir)
    THEN leave("ValueError", NoExc, PyNone, env, cfs, <<>>)
    ELSE
    With(makedirs(a.output_dir.s, cfs), LAMBDA cfs1 :
    IF cfs1.dirs[a.output_dir.s] # "rw"
    THEN leave("PermissionError", NoExc, PyNone, env, cfs1, <<"makedirs", "access">>)
    ELSE IF a.client = PyNone /\ (~Truthy(a.project_id) \/ ~IsStr(a.project_id))
    THEN leave("ValueError", NoExc, PyNone, env, cfs1, <<"makedirs", "access">>)
    ELSE
    With(IF a.client = PyNone
         THEN With(initialize_bigquery_client(a.project_id, a.credentials_path,
                                              a.env_var, FALSE, env, kfs, w.client),
                   LAMBDA r : [r EXCEPT !.events =
                                 <<"makedirs", "access", "initialize_bigquery_client">>
                                 \o r.events])
         ELSE [exc |-> NoExc, cause |-> NoExc, value |-> a.client,
               environ |-> env, events |-> <<"makedirs", "access">>],
    LAMBDA init :
    IF IsInstance(init.exc, "Exception")
    THEN leave("RuntimeError", init.exc, PyNone, init.environ, cfs1, init.events)
    ELSE IF init.exc # NoExc
    THEN leave(init.exc, NoExc, PyNone, init.environ, cfs1, init.events)
    ELSE
    With(ExportBody(a, OutputFile(a.output_dir, a.table_name, a.suffix_timestamp, w.ts),
                    cfs1, w),
    LAMBDA body :
    IF body.exc = NoExc
    THEN leave(NoExc, NoExc, body.value, init.environ, body.csvfs,
               init.events \o body.events)
    ELSE With(Handle(body.exc), LAMBDA h :
         leave(h.exc, h.cause, PyNone, init.environ, body.csvfs,
               init.events \o body.events)))))

----------------------------------------------------------------------------
(* call_openai.py *)

\* line 33: the largest max_tokens accepted
MaxTokensLimit == 4096

\* lines 39-40: the key and the endpoint written into the function
api_key == PyStr(<<"GJyIapLq">>)
azure_endpoint == PyStr(<<"https://", "instancehackatonpionners01.openai.azure.com/">>)

\* the range test letting 0 through
InvalidMaxTokens_ZeroAllowed(max_tokens) ==
    ~IsInt(max_tokens) \/ IntOf(max_tokens) < 0 \/ IntOf(max_tokens) > MaxTokensLimit

\* line 33: not an int, or outside (0, 4096]
InvalidMaxTokens(max_tokens) ==
    ~IsInt(max_tokens) \/ IntOf(max_tokens) <= 0 \/ IntOf(max_tokens) > MaxTokensLimit

\* lines 62-89: the request and its handlers.  w.req is what
\* chat.completions.create raises, w.content the message content of the
\* first choice (None: the reply carries no text, and result[:50] raises)
Request(w) ==
    LET ret(atoms) == [exc |-> NoExc, value |-> PyStr(atoms),
                       events |-> <<"AzureOpenAI", "create">>]
        e == IF w.req # NoExc THEN w.req
             ELSE IF w.content.t # "str" THEN "TypeError" ELSE NoExc
    IN  IF e = NoExc THEN ret(w.content.s)
        ELSE IF IsInstance(e, "AuthenticationError")
             THEN ret(<<"Erreur", "Cle API invalide ou probleme d'authentification.">>)
        ELSE IF IsInstance(e, "RateLimitError")
             THEN ret(<<"Erreur", "Limite de taux depassee. Reessayez plus tard.">>)
        ELSE IF IsInstance(e, "APIConnectionError")
             THEN ret(<<"Erreur", "Impossible de se connecter a l'API Azure OpenAI.">>)
        ELSE IF IsInstance(e, "APIError")
             THEN ret(<<"Erreur", "Probleme avec l'API Azure OpenAI (", e, ").">>)
        ELSE IF IsInstance(e, "Exception")
             THEN ret(<<"Erreur inattendue lors de l'appel a l'API", e, ".">>)
        ELSE [exc |-> e, value |-> PyNone, events |-> <<"AzureOpenAI", "create">>]

\* call_openai_api(prompt, max_tokens, model, api_version); w.ctor is what
\* AzureOpenAI(...) raises
call_openai_api(prompt, max_tokens, model, api_version, w) ==
    LET err(atoms) == [exc |-> NoExc, value |-> PyStr(atoms), events |-> <<>>] IN
    IF ~Truthy(prompt) \/ ~IsStr(prompt)
    THEN err(<<"Erreur", "Le prompt est vide ou invalide.">>)
    ELSE IF InvalidMaxTokens(max_tokens)
    THEN err(<<"Erreur", "max_tokens doit etre un entier positif inferieur a 4096.">>)
    ELSE IF ~Truthy(api_key)
    THEN err(<<"Erreur", "La cle API est manquante. Configurez AZURE_OPENAI_API_KEY.">>)
    ELSE IF azure_endpoint.s[1] # "https://"
    THEN err(<<"Erreur", "Endpoint Azure invalide.">>)
    ELSE IF w.ctor # NoExc
    THEN IF IsInstance(w.ctor, "ValueError")
         THEN [exc |-> NoExc,
               value |-> PyStr(<<"Erreur", "Initialisation du client impossible (",
                                 w.ctor, ").">>),
               events |-> <<"AzureOpenAI">>]
         ELSE [exc |-> w.ctor, value |-> PyNone, events |-> <<"AzureOpenAI">>]
    ELSE Request(w)

----------------------------------------------------------------------------
(* get_latest_file.py, with glob.glob and fnmatch as CPython implements them.
   The working directory holds directories only, each holding entries
   [name, mtime, dangling]; a dangling entry is a symbolic link whose target
   is missing.  listing maps a directory name to [state, entries], the
   entries in the order os.scandir yields them. *)

\* glob.has_magic: the pattern holds one of * ? [
has_magic(atoms) == \E i \in 1..Len(atoms) : atoms[i] \in {"*", "?", "["}

\* glob._ishidden
ishidden(atoms) == atoms # <<>> /\ Head(atoms) = "."

\* Atoms that are one character long: what "?" or a [class] can match
Chars == {"1", "2", ".", "_", "[", "]", "*", "?", "!"}

RECURSIVE ClassEnd(_, _)
\* fnmatch.translate on "[": the index in pat of the "]" closing the class
\* opened just before index j, 0 when there is none
ClassEnd(pat, j) ==
    IF j > Len(pat) THEN 0
    ELSE IF pat[j] = "]" THEN j
    ELSE ClassEnd(pat, j + 1)

RECURSIVE fnmatch(_, _)
\* fnmatch.fnmatchcase(name, pat): * matches any run of atoms, ? one
\* character, [seq] one character of seq ([!seq]: one not in seq), a "["
\* that nothing closes itself, every other atom itself
fnmatch(pat, name) ==
    IF pat = <<>> THEN name = <<>>
    ELSE LET p == Head(pat) IN
         IF p = "*"
         THEN fnmatch(Tail(pat), name)
              \/ (name # <<>> /\ fnmatch(pat, Tail(name)))
         ELSE IF p = "?"
         THEN name # <<>> /\ Head(name) \in Chars /\ fnmatch(Tail(pat), Tail(name))
         ELSE IF p = "["
         THEN LET neg == Len(pat) >= 2 /\ pat[2] = "!"
                  first == IF neg THEN 3 ELSE 2
                  from == IF first <= Len(pat) /\ pat[first] = "]"
                          THEN first + 1 ELSE first
                  close == ClassEnd(pat, from)
              IN  IF close = 0
                  THEN name # <<>> /\ Head(name) = "["
                       /\ fnmatch(Tail(pat), Tail(name))
                  ELSE LET members == {pat[i] : i \in first..(close - 1)} IN
                       /\ name # <<>>
                       /\ Head(name) \in Chars
                       /\ (Head(name) \in members) # neg
                       /\ fnmatch(SubSeq(pat, close + 1, Len(pat)), Tail(name))
         ELSE name # <<>> /\ Head(name) = p /\ fnmatch(Tail(pat), Tail(name))

RECURSIVE LastSlash(_, _)
LastSlash(atoms, i) ==
    IF i = 0 THEN 0 ELSE IF atoms[i] = "/" THEN i ELSE LastSlash(atoms, i - 1)

\* os.path.split(p): what precedes the last "/" and what follows it
split(atoms) ==
    With(LastSlash(atoms, Len(atoms)), LAMBDA k :
         [head |-> IF k <= 1 THEN SubSeq(atoms, 1, k) ELSE SubSeq(atoms, 1, k - 1),
          tail |-> SubSeq(atoms, k + 1, Len(atoms))])

\* os.path.basename(p)
basename(atoms) == split(atoms).tail

\* The order in which os.scandir yields the directories of the working directory
CwdOrder == << <<"out">>, <<"data", "1">>, <<"data", "[", "1", "]">> >>

IsDir(dir, ls) == dir \in DOMAIN ls /\ ls[dir].state # "absent"

\* glob._glob1(dirname, pattern) for a directory of the working directory:
\* the names it lists (none when it cannot be listed), the hidden ones
\* dropped unless the pattern is hidden, filtered by fnmatch
glob1(dir, pattern, ls) ==
    LET entries == IF IsDir(dir, ls) /\ ls[dir].state = "ok"
                   THEN ls[dir].entries ELSE <<>>
        keep(e) == (ishidden(pattern) \/ ~ishidden(e.name)) /\ fnmatch(pattern, e.name)
    IN  SelectSeq(entries, keep)

\* glob._iglob(dirname, dironly=True) for a one-component dirname with
\* magic: the directories of the working directory whose name it matches
GlobDirs(dirname, ls) ==
    LET keep(d) == IsDir(d, ls) /\ (ishidden(dirname) \/ ~ishidden(d))
                   /\ fnmatch(dirname, d)
    IN  SelectSeq(CwdOrder, keep)

RECURSIVE GlobIn(_, _, _)
\* the matches of pattern in each directory of dirs, in order
GlobIn(dirs, pattern, ls) ==
    IF dirs = <<>> THEN <<>>
    ELSE With(glob1(Head(dirs), pattern, ls), LAMBDA found :
              [i \in 1..Len(found) |->
                 [path |-> join(Head(dirs), found[i].name), mtime |-> found[i].mtime,
                  dangling |-> found[i].dangling]])
         \o GlobIn(Tail(dirs), pattern, ls)

\* glob.glob(pathname) for directory/pattern: a directory part with magic is
\* itself expanded as a pattern
glob(pathname, ls) ==
    With(split(pathname), LAMBDA sp :
         GlobIn(IF sp.head # pathname /\ has_magic(sp.head)
                THEN GlobDirs(sp.head, ls)
                ELSE <<sp.head>>,
                sp.tail, ls))

RECURSIVE MaxByMtime(_, _)
\* max(files, key=os.path.getmtime): the first file of the greatest mtime
MaxByMtime(files, best) ==
    IF files = <<>> THEN best
    ELSE MaxByMtime(Tail(files),
                    IF Head(files).mtime > best.mtime THEN Head(files) ELSE best)

\* line 40: os.path.join(directory, f"*{keyword}*{extension}")
Pattern(directory, keyword, extension) ==
    join(directory.s, <<"*">> \o keyword.s \o <<"*">> \o extension.s)

\* get_latest_file_by_keyword(keyword, directory, extension)
get_latest_file_by_keyword(keyword, directory, extension, ls) ==
    LET leave(e, v, ev) == [exc |-> e, value |-> v, events |-> ev] IN
    IF ~Truthy(keyword) \/ ~IsStr(keyword) THEN leave("ValueError", PyNone, <<>>)
    ELSE IF ~Truthy(extension) THEN leave("ValueError", PyNone, <<>>)
    ELSE IF ~IsStr(extension) THEN leave("AttributeError", PyNone, <<>>)
    ELSE IF Head(extension.s) # "." THEN leave("ValueError", PyNone, <<>>)
    ELSE IF ~IsDir(directory.s, ls)
    THEN leave("NotADirectoryError", PyNone, <<"isdir">>)
    ELSE IF ls[directory.s].state # "ok"
    THEN leave("PermissionError", PyNone, <<"isdir", "access">>)
    ELSE With(glob(Pattern(directory, keyword, extension), ls),
         LAMBDA matching_files :
         IF matching_files = <<>>
         THEN leave(NoExc, PyNone, <<"isdir", "access", "glob">>)
         ELSE IF \E i \in 1..Len(matching_files) : matching_files[i].dangling
         THEN leave("FileNotFoundError", PyNone, <<"isdir", "access", "glob", "getmtime">>)
         ELSE With(MaxByMtime(Tail(matching_files), Head(matching_files)),
              LAMBDA latest_file :
              leave(NoExc, PyStr(basename(latest_file.path)),
                    <<"isdir", "access", "glob", "getmtime">>)))

----------------------------------------------------------------------------
(* Calls.  pc is "ready" between calls and "done" when a call has left; pre
   is the environment and the output files as they were when the call began. *)

NoCall == [fn |-> "-"]
NoOutcome == [exc |-> NoExc, cause |-> NoExc, value |-> PyNone, events |-> <<>>]
NoPre == [environ |-> <<>>, csvfs |-> <<>>]

\* The environments a call may start in
EnvStates ==
    UNION {[S -> KeyFiles] : S \in SUBSET EnvNames}

\* Arguments tried for key_path / credentials_path
KeyPathArgs ==
    {PyNone, PyStr(<<>>), PyInt(7),
     PyStr(<<"key", ".", "json">>), PyStr(KeyFile),
     PyStr(<<"alt", ".", "json">>),
     PyStr(<<"missing", ".", "json">>),
     PyStr(<<"nodir", "/", ".", ".", "/", "key", ".", "json">>)}

\* Arguments tried for env_var
EnvVarArgs ==
    {PyNone, PyStr(<<>>), PyInt(5), PyStr(GAC), PyStr(OtherVar),
     PyStr(<<"NEW_VAR">>), PyStr(<<"A", "=", "B">>)}

\* a call has left: back to the caller
Return ==
    /\ pc = "done"
    /\ pc' = "ready"
    /\ call' = NoCall
    /\ outcome' = NoOutcome
    /\ pre' = NoPre
    /\ UNCHANGED <<environ, keyfs, csvfs, listing>>

SetupAuthenticationCall ==
    /\ pc = "ready"
    /\ \E key_path \in KeyPathArgs, env_var \in EnvVarArgs :
         \E r \in {setup_authentication(key_path, env_var, environ, keyfs)} :
         /\ call' = [fn |-> "setup_authentication", key_path |-> key_path,
                     env_var |-> env_var]
         /\ outcome' = [exc |-> r.exc, cause |-> NoExc, value |-> PyNone,
                        events |-> r.events]
         /\ environ' = r.environ
    /\ pre' = [environ |-> environ, csvfs |-> csvfs]
    /\ pc' = "done"
    /\ UNCHANGED <<keyfs, csvfs, listing>>

\* Arguments tried for project_id
ProjectArgs == {PyNone, PyStr(<<>>), PyInt(12), PyStr(<<"my-project">>)}

\* Arguments tried by the client initializer's callers
ClientKeyPathArgs ==
    {PyNone, PyInt(7), PyStr(<<"key", ".", "json">>),
     PyStr(<<"missing", ".", "json">>),
     PyStr(<<"nodir", "/", ".", ".", "/", "key", ".", "json">>)}

ClientEnvVarArgs == {PyNone, PyStr(GAC), PyInt(5)}

\* What the libraries may answer during client construction
ClientWorlds ==
    [creds : {NoExc, "ValueError"},
     ctor : {NoExc, "NotFound", "Forbidden", "BadRequest", "DefaultCredentialsError"},
     interrupt : {NoExc, "KeyboardInterrupt"},
     close : {NoExc, "OSError"}]

InitializeClientCall ==
    /\ pc = "ready"
    /\ \E project_id \in ProjectArgs, credentials_path \in ClientKeyPathArgs,
          env_var \in ClientEnvVarArgs, auto_close \in BOOLEAN, w \in ClientWorlds :
         \E r \in {initialize_bigquery_client(project_id, credentials_path, env_var,
                                             auto_close, environ, keyfs, w)} :
         /\ call' = [fn |-> "initialize_bigquery_client", project_id |-> project_id,
                     credentials_path |-> credentials_path, env_var |-> env_var,
                     auto_close |-> auto_close, world |-> w]
         /\ outcome' = [exc |-> r.exc, cause |-> r.cause, value |-> r.value,
                        events |-> r.events]
         /\ environ' = r.environ
    /\ pre' = [environ |-> environ, csvfs |-> csvfs]
    /\ pc' = "done"
    /\ UNCHANGED <<keyfs, csvfs, listing>>

\* Bounds of the result tables, sizes and clock values tried
MaxRows == 2
MaxGiB == 3
MaxClock == 2

OutDir == <<"out">>
GoodQuery == PyStr(<<"SELECT">>)
GoodTable == PyStr(<<"events">>)
GoodProject == PyStr(<<"my-project">>)
OtherClient == Client(PyStr(<<"other-project">>), "default", FALSE)

\* The argument combinations tried for query, table_name, output_dir, client,
\* project_id and credentials_path: every valid way of obtaining a client,
\* and each argument invalid in turn
ExtractShapes ==
    LET base == [query |-> GoodQuery, table_name |-> GoodTable,
                 output_dir |-> PyStr(OutDir), client |-> PyNone,
                 project_id |-> GoodProject, credentials_path |-> PyNone,
                 env_var |-> PyStr(GAC)]
    IN  {base,
         [base EXCEPT !.client = OtherClient, !.project_id = PyNone],
         [base EXCEPT !.credentials_path = PyStr(<<"key", ".", "json">>)],
         [base EXCEPT !.query = PyStr(<<>>)],
         [base EXCEPT !.table_name = PyInt(1)],
         [base EXCEPT !.output_dir = PyNone],
         [base EXCEPT !.project_id = PyNone]}

ExtractArgs ==
    {[query |-> sh.query, table_name |-> sh.table_name, output_dir |-> sh.output_dir,
      client |-> sh.client, project_id |-> sh.project_id,
      credentials_path |-> sh.credentials_path, env_var |-> sh.env_var,
      suffix_timestamp |-> st, export_empty |-> ee, maximum_bytes_billed |-> mb,
      limit_bytes |-> lb] :
        sh \in ExtractShapes, st \in BOOLEAN, ee \in BOOLEAN,
        mb \in {PyNone, PyInt(1000)}, lb \in BOOLEAN}

\* The result tables tried: a row count and an in-memory size
Tables ==
    [rows : 0..MaxRows,
     size : [gib : 0..MaxGiB, rem : {0, 1, GiB - 1}]]

NoTable == [rows |-> 0, size |-> [gib |-> 0, rem |-> 0]]

\* What the clock, the client construction, the remote service and the
\* file system may answer during one extract_table call.  A step that raises
\* ends the try, so at most one step raises; no table exists when the query
\* or the conversion raised.
ExtractWorlds ==
    LET faults ==
            [fault : {"query"}, exc : {"Forbidden", "BadRequest", "TypeError"},
             partial : {FALSE}, df : {NoTable}]
            \cup [fault : {"to_dataframe"}, exc : {"Forbidden", "ValueError"},
                  partial : {FALSE}, df : {NoTable}]
            \cup [fault : {"to_csv"}, exc : {"OSError"}, partial : BOOLEAN, df : Tables]
            \cup [fault : {"-"}, exc : {NoExc}, partial : {FALSE}, df : Tables]
        clients ==
            [creds : {NoExc}, ctor : {NoExc, "Forbidden"}, interrupt : {NoExc},
             close : {NoExc}]
    IN  {[ts |-> ToString(t), client |-> c, fault |-> f.fault, exc |-> f.exc,
          partial |-> f.partial, df |-> f.df] :
            t \in 1..MaxClock, c \in clients, f \in faults}

ExtractTableCall ==
    /\ pc = "ready"
    /\ \E a \in ExtractArgs, w \in ExtractWorlds :
         \E r \in {extract_table(a, environ, keyfs, csvfs, w)} :
         /\ call' = [fn |-> "extract_table", args |-> a, world |-> w]
         /\ outcome' = [exc |-> r.exc, cause |-> r.cause, value |-> r.value,
                        events |-> r.events]
         /\ environ' = r.environ
         /\ csvfs' = r.csvfs
    /\ pre' = [environ |-> environ, csvfs |-> csvfs]
    /\ pc' = "done"
    /\ UNCHANGED <<keyfs, listing>>

\* Arguments tried for prompt and max_tokens
PromptArgs == {PyNone, PyStr(<<>>), PyInt(3), PyStr(<<"hello">>)}

MaxTokensArgs ==
    {PyInt(n) : n \in {-1, 0, 1, 300, MaxTokensLimit - 1, MaxTokensLimit,
                       MaxTokensLimit + 1}}
    \cup {PyNone, PyFloat(300), PyStr(<<"300">>), PyBool(TRUE), PyBool(FALSE)}

\* What the OpenAI library may answer: construction raises, or the request
\* raises, or a reply arrives with or without text
OpenAIWorlds ==
    [ctor : {"ValueError", "TypeError", "OpenAIError"}, req : {NoExc},
     content : {PyNone}]
    \cup [ctor : {NoExc},
          req : {"AuthenticationError", "RateLimitError", "APIConnectionError",
                 "APIError", "OSError"},
          content : {PyNone}]
    \cup [ctor : {NoExc}, req : {NoExc}, content : {PyNone, PyStr(<<"theme">>)}]

CallOpenAICall ==
    /\ pc = "ready"
    /\ \E prompt \in PromptArgs, max_tokens \in MaxTokensArgs,
          api_version \in {PyNone, PyStr(<<"2024-05-01-preview">>)},
          w \in OpenAIWorlds :
         \E r \in {call_openai_api(prompt, max_tokens, PyStr(<<"gpt-4o-pionners10">>),
                                  api_version, w)} :
         /\ call' = [fn |-> "call_openai_api", prompt |-> prompt,
                     max_tokens |-> max_tokens, api_version |-> api_version,
                     world |-> w]
         /\ outcome' = [exc |-> r.exc, cause |-> NoExc, value |-> r.value,
                        events |-> r.events]
    /\ pre' = [environ |-> environ, csvfs |-> csvfs]
    /\ pc' = "done"
    /\ UNCHANGED <<environ, keyfs, csvfs, listing>>

\* Bounds of the directory listings tried
MaxEntries == 2
MaxMtime == 2

Older == <<"sales", "_20240101", ".", "csv">>
Newer == <<"sales", "_20240201", ".", "csv">>
FileNames ==
    {Older, Newer, <<"other", ".", "csv">>, <<"sales", ".", "txt">>,
     <<".", "sales", ".", "csv">>}

PlainDir == <<"out">>
BracketDir == <<"data", "[", "1", "]">>
DigitDir == <<"data", "1">>

\* The listings tried for the plain directory: up to MaxEntries entries of
\* different names, in any order
Listings ==
    UNION {{l \in [1..n -> [name : FileNames, mtime : 1..MaxMtime, dangling : {FALSE}]] :
              \A i, j \in 1..n : i # j => l[i].name # l[j].name} :
           n \in 0..MaxEntries}

KeywordArgs == {PyNone, PyStr(<<>>), PyInt(4), PyStr(<<"sales">>)}
ExtensionArgs == {PyNone, PyInt(5), PyStr(<<"csv">>), PyStr(<<".", "csv">>)}
DirectoryArgs ==
    {PyStr(PlainDir), PyStr(BracketDir), PyStr(DigitDir), PyStr(<<"nodir">>)}

GetLatestFileCall ==
    /\ pc = "ready"
    /\ \E keyword \in KeywordArgs, directory \in DirectoryArgs,
          extension \in ExtensionArgs :
         \E r \in {get_latest_file_by_keyword(keyword, directory, extension, listing)} :
         /\ call' = [fn |-> "get_latest_file_by_keyword", keyword |-> keyword,
                     directory |-> directory, extension |-> extension]
         /\ outcome' = [exc |-> r.exc, cause |-> NoExc, value |-> r.value,
                        events |-> r.events]
    /\ pre' = [environ |-> environ, csvfs |-> csvfs]
    /\ pc' = "done"
    /\ UNCHANGED <<environ, keyfs, csvfs, listing>>

InitCommon ==
    /\ pc = "ready"
    /\ call = NoCall
    /\ outcome = NoOutcome
    /\ pre = NoPre

InitAuth ==
    /\ InitCommon
    /\ environ \in EnvStates
    /\ keyfs \in [KeyFiles -> KeyStates]
    /\ csvfs = <<>>
    /\ listing = <<>>

NextAuth == SetupAuthenticationCall \/ Return

SpecAuth == InitAuth /\ [][NextAuth]_vars

InitClient ==
    /\ InitCommon
    /\ environ \in {<<>>, [n \in {GAC} |-> AltFile]}
    /\ keyfs \in {[f \in KeyFiles |-> IF f = KeyFile THEN st ELSE "absent"] :
                    st \in KeyStates}
    /\ csvfs = <<>>
    /\ listing = <<>>

NextClient == InitializeClientCall \/ Return

SpecClient == InitClient /\ [][NextClient]_vars

\* The output directory and files an extract_table call may find
InitCsvfs ==
    LET old == [rows |-> 1, header |-> TRUE, complete |-> TRUE]
        oldFile == <<"out", "/", "events", ".", "csv">>
    IN  {[dirs |-> [d \in {OutDir} |-> st], files |-> <<>>] :
            st \in {"absent", "ro"}}
        \cup {[dirs |-> [d \in {OutDir} |-> "rw"],
               files |-> [f \in {oldFile} |-> old]]}

InitExtract ==
    /\ InitCommon
    /\ environ = <<>>
    /\ keyfs = [f \in KeyFiles |-> IF f = KeyFile THEN "ok" ELSE "absent"]
    /\ csvfs \in InitCsvfs
    /\ listing = <<>>

NextExtract == ExtractTableCall

SpecExtract == InitExtract /\ [][NextExtract]_vars

InitOpenAI ==
    /\ InitCommon
    /\ environ = <<>>
    /\ keyfs = [f \in KeyFiles |-> "absent"]
    /\ csvfs = <<>>
    /\ listing = <<>>

NextOpenAI == CallOpenAICall \/ Return

SpecOpenAI == InitOpenAI /\ [][NextOpenAI]_vars

\* The directories a get_latest_file_by_keyword call may find: a plain one
\* with any listing, readable or not, and two whose names differ by brackets
InitLatest ==
    /\ InitCommon
    /\ environ = <<>>
    /\ keyfs = [f \in KeyFiles |-> "absent"]
    /\ csvfs = <<>>
    /\ \E l \in Listings, st \in {"ok", "noread"}, b \in BOOLEAN, d \in 0..2 :
         listing =
           [dir \in {PlainDir, BracketDir, DigitDir} |->
              IF dir = PlainDir THEN [state |-> st, entries |-> l]
              ELSE IF dir = BracketDir
              THEN [state |-> "ok",
                    entries |-> IF b THEN <<[name |-> Newer, mtime |-> 1,
                                             dangling |-> FALSE]>>
                                ELSE <<>>]
              ELSE [state |-> "ok",
                    entries |-> IF d = 0 THEN <<>>
                                ELSE <<[name |-> Older, mtime |-> 1,
                                        dangling |-> (d = 2)]>>]]

NextLatest == GetLatestFileCall \/ Return

SpecLatest == InitLatest /\ [][NextLatest]_vars

----------------------------------------------------------------------------
(* Claims *)

\* The absolute path each key path argument of KeyPathArgs names, written
\* out by hand (the working directory is /work)
AbsOfArg(atoms) ==
    CASE atoms = <<"key", ".", "json">> -> KeyFile
      [] atoms = KeyFile -> KeyFile
      [] atoms = <<"nodir", "/", ".", ".", "/", "key", ".", "json">> -> KeyFile
      [] atoms = <<"alt", ".", "json">> -> AltFile
      [] OTHER -> <<"/", "work", "/", "missing", ".", "json">>

\* a usable environment-variable name: a non-empty str without "="
LegalEnvName(v) ==
    /\ v.t = "str"
    /\ v.s # <<>>
    /\ \A i \in 1..Len(v.s) : v.s[i] # "="

\* the key path is a non-empty str whose absolute path exists
C7_ValidKey ==
    /\ call.key_path.t = "str"
    /\ call.key_path.s # <<>>
    /\ AbsOfArg(call.key_path.s) \in KeyFiles
    /\ keyfs[AbsOfArg(call.key_path.s)] # "absent"

\* C7: setup_authentication changes the environment in at most one way: with
\* a valid existing key path and a destination name, that variable holds the
\* absolute path afterwards and every other variable is as before; in every
\* other outcome the environment is exactly as it was before the call.
C7_EnvironFrame ==
    (pc = "done" /\ call.fn = "setup_authentication") =>
        IF C7_ValidKey /\ LegalEnvName(call.env_var)
        THEN /\ outcome.exc = NoExc
             /\ DOMAIN environ = DOMAIN pre.environ \cup {call.env_var.s}
             /\ environ[call.env_var.s] = AbsOfArg(call.key_path.s)
             /\ \A n \in DOMAIN pre.environ :
                    n # call.env_var.s => environ[n] = pre.environ[n]
        ELSE /\ environ = pre.environ
             /\ (call.key_path.t # "str" \/ call.key_path.s = <<>>)
                    => outcome.exc = "ValueError"
             /\ (call.key_path.t = "str" /\ call.key_path.s # <<>> /\ ~C7_ValidKey)
                    => outcome.exc = "FileNotFoundError"

\* a relative key path was published as its absolute path under a variable
\* that was not set before, another variable being set
C7_Witness ==
    /\ pc = "done" /\ call.fn = "setup_authentication"
    /\ call.key_path = PyStr(<<"key", ".", "json">>)
    /\ call.env_var = PyStr(GAC)
    /\ GAC \notin DOMAIN pre.environ
    /\ OtherVar \in DOMAIN pre.environ
    /\ GAC \in DOMAIN environ
    /\ environ[GAC] = KeyFile

----------------------------------------------------------------------------
ClientDone == pc = "done" /\ call.fn = "initialize_bigquery_client"

\* project_id passed the validation of line 41 (a non-empty str)
ValidProject(v) == v.t = "str" /\ v.s # <<>>

Occurs(ev, e) == \E i \in 1..Len(ev) : ev[i] = e

\* C4: with a credentials_path supplied, failures of the credential step
\* reach the caller with their own kind: ValueError or FileNotFoundError from
\* setup_authentication, PermissionError for an existing but unreadable key.
C4_CredentialFailuresKeepKind ==
    (ClientDone /\ ValidProject(call.project_id)
        /\ Truthy(call.credentials_path)) =>
        /\ call.credentials_path.t # "str" => outcome.exc = "ValueError"
        /\ (call.credentials_path.t = "str"
              /\ call.credentials_path.s = <<"missing", ".", "json">>)
                => outcome.exc = "FileNotFoundError"
        /\ (call.credentials_path = PyStr(<<"key", ".", "json">>)
              /\ keyfs[KeyFile] = "noread")
                => outcome.exc = "PermissionError"

\* C5: the initializer closes the client only on the error path: with
\* auto_close, a client already built when construction raised is closed
\* before the error propagates; a client returned to the caller has never
\* been closed by the initializer, whatever auto_close is.
C5_ClosedOnlyOnError ==
    ClientDone =>
        /\ (outcome.exc # NoExc /\ call.auto_close
              /\ Occurs(outcome.events, "Client") /\ call.world.ctor = NoExc)
                => Occurs(outcome.events, "close")
        /\ outcome.exc = NoExc
                => (outcome.value.t = "client" /\ ~outcome.value.closed
                      /\ ~Occurs(outcome.events, "close"))

\* C6: for every project_id that is empty or not a str the initializer
\* raises ValueError itself (not wrapped into RuntimeError) before any
\* credential setup, environment write or client construction.
C6_InvalidProjectFailsFirst ==
    (ClientDone /\ ~ValidProject(call.project_id)) =>
        /\ outcome.exc = "ValueError"
        /\ outcome.cause = NoExc
        /\ outcome.events = <<>>
        /\ environ = pre.environ

\* a non-str project_id was rejected although a usable key file and a
\* destination variable were supplied and the libraries would have succeeded
C6_Witness ==
    /\ ClientDone
    /\ call.project_id = PyInt(12)
    /\ call.credentials_path = PyStr(<<"key", ".", "json">>)
    /\ keyfs[KeyFile] = "ok"
    /\ call.env_var = PyStr(GAC)
    /\ call.world.ctor = NoExc /\ call.world.creds = NoExc
    /\ outcome.exc = "ValueError"

----------------------------------------------------------------------------
ExtractDone == pc = "done" /\ call.fn = "extract_table"

\* the query ran and its result was converted: a result table exists
HasTable ==
    /\ ExtractDone
    /\ Occurs(outcome.events, "to_dataframe")
    /\ call.world.fault \notin {"query", "to_dataframe"}

\* the table's size is strictly greater than 2 GiB = 2 * 1073741824 bytes
Over2GiB(size) == size.gib >= 3 \/ (size.gib = 2 /\ size.rem >= 1)

\* the size check does not stop the call
PassesSizeCheck == ~call.args.limit_bytes \/ ~Over2GiB(call.world.df.size)

FilesUnchanged == csvfs.files = pre.csvfs.files

\* the output path of the call, written out: out/events[_<time>].csv
ExpectedPath ==
    IF call.args.suffix_timestamp
    THEN <<"out", "/", "events", "_", call.world.ts, ".", "csv">>
    ELSE <<"out", "/", "events", ".", "csv">>

\* C1: whenever limit_bytes is set and the result table is larger than
\* 2 GiB, extract_table returns None and writes no CSV file, for every
\* export_empty, suffix_timestamp and row count (zero included); the size
\* check is decided before the empty-result check.
C1_OversizeNotWritten ==
    (HasTable /\ call.args.limit_bytes /\ Over2GiB(call.world.df.size)) =>
        /\ outcome.exc = NoExc
        /\ outcome.value = PyNone
        /\ FilesUnchanged
        /\ ~Occurs(outcome.events, "to_csv")
        /\ ~Occurs(outcome.events, "warn_empty")

\* a table of one byte more than 2 GiB, with rows, was refused
C1_Witness ==
    /\ HasTable
    /\ call.args.limit_bytes
    /\ call.world.df.size = [gib |-> 2, rem |-> 1]
    /\ call.world.df.rows > 0
    /\ call.world.fault = "-"
    /\ outcome.value = PyNone

\* C2: for a zero-row result that passes (or skips) the size check:
\* with export_empty false the call returns None and writes no file; with
\* export_empty true (and a write that does not fail) the call writes a
\* header-only CSV at the computed output path and returns that path.
C2_EmptyResult ==
    (HasTable /\ call.world.df.rows = 0 /\ PassesSizeCheck) =>
        /\ ~call.args.export_empty =>
              /\ outcome.exc = NoExc
              /\ outcome.value = PyNone
              /\ FilesUnchanged
              /\ ~Occurs(outcome.events, "to_csv")
        /\ (call.args.export_empty /\ call.world.fault # "to_csv") =>
              /\ outcome.exc = NoExc
              /\ outcome.value = PyStr(ExpectedPath)
              /\ ExpectedPath \in DOMAIN csvfs.files
              /\ csvfs.files[ExpectedPath] =
                    [rows |-> 0, header |-> TRUE, complete |-> TRUE]
              /\ \A f \in DOMAIN pre.csvfs.files :
                    f # ExpectedPath => csvfs.files[f] = pre.csvfs.files[f]

\* an empty table was exported as a header-only file under a time-stamped name
C2_Witness ==
    /\ HasTable
    /\ call.world.df.rows = 0
    /\ call.args.export_empty
    /\ call.args.suffix_timestamp
    /\ call.world.fault = "-"
    /\ outcome.value = PyStr(<<"out", "/", "events", "_", "1", ".", "csv">>)
    /\ csvfs.files[<<"out", "/", "events", "_", "1", ".", "csv">>].rows = 0

\* a step of the try (query, conversion, write) raised
StepRaised ==
    /\ ExtractDone
    /\ call.world.fault # "-"
    /\ Occurs(outcome.events, call.world.fault)

\* C3: an exception raised while running the query, converting the result
\* or writing the CSV is swallowed (None returned, nothing raised, no file
\* written) exactly when it is Forbidden; every other exception of those
\* steps leaves the call as RuntimeError.
C3_OnlyForbiddenSwallowed ==
    StepRaised =>
        IF call.world.exc = "Forbidden"
        THEN outcome.exc = NoExc /\ outcome.value = PyNone /\ FilesUnchanged
        ELSE outcome.exc = "RuntimeError" /\ outcome.cause = call.world.exc

\* the conversion raised Forbidden and the call returned None; the directory
\* held an older file that was left alone
C3_Witness ==
    /\ StepRaised
    /\ call.world.fault = "to_dataframe"
    /\ call.world.exc = "Forbidden"
    /\ outcome.exc = NoExc
    /\ outcome.value = PyNone
    /\ DOMAIN csvfs.files # {}

\* the call returned a path (a value other than None, no exception)
ReturnsPath == ExtractDone /\ outcome.exc = NoExc /\ outcome.value # PyNone

\* df.to_csv was entered / was entered and raised
WriteAttempted == ExtractDone /\ Occurs(outcome.events, "to_csv")
WriteRaised == WriteAttempted /\ call.world.fault = "to_csv"

\* every file other than the call's output path is as it was before the call
OthersUnchanged ==
    /\ DOMAIN csvfs.files \ {ExpectedPath} = DOMAIN pre.csvfs.files \ {ExpectedPath}
    /\ \A f \in DOMAIN pre.csvfs.files :
          f # ExpectedPath => csvfs.files[f] = pre.csvfs.files[f]

Positions(ev, e) == {i \in 1..Len(ev) : ev[i] = e}

\* a returned path is the computed output path, and the complete table is
\* the file at that path; no other file was touched
PathIsFileWritten ==
    ReturnsPath =>
        /\ outcome.value = PyStr(ExpectedPath)
        /\ ExpectedPath \in DOMAIN csvfs.files
        /\ csvfs.files[ExpectedPath] =
              [rows |-> call.world.df.rows, header |-> TRUE, complete |-> TRUE]
        /\ OthersUnchanged
        /\ WriteAttempted

\* df.to_csv is entered at most once, after the arguments were accepted, the
\* query ran and was converted, the size check passed (or was switched off)
\* and the empty-result check passed
WriteOnceAfterChecks ==
    WriteAttempted =>
        /\ Cardinality(Positions(outcome.events, "to_csv")) = 1
        /\ \A i \in Positions(outcome.events, "to_csv") :
              /\ i = Len(outcome.events)
              /\ \E q \in Positions(outcome.events, "query") :
                 \E d \in Positions(outcome.events, "to_dataframe") :
                    q < d /\ d < i
              /\ call.args.limit_bytes =>
                    \E m \in Positions(outcome.events, "memory_usage") :
                       m < i /\ \A d \in Positions(outcome.events, "to_dataframe") : d < m
        /\ call.world.fault \notin {"query", "to_dataframe"}
        /\ PassesSizeCheck
        /\ call.world.df.rows > 0 \/ call.args.export_empty

\* C11 as stated: on every exit path of extract_table a CSV file is written
\* by the call if and only if the call returns a path, which is the file
\* written; a call that returns None or raises leaves the files as they
\* were; the write happens at most once and only after the query ran and
\* the size and empty-result checks passed.
C11_WrittenIffPathReturned ==
    ExtractDone =>
        /\ PathIsFileWritten
        /\ ~ReturnsPath => FilesUnchanged
        /\ WriteOnceAfterChecks

\* C11, amended: on every exit path on which df.to_csv does not itself
\* raise, a CSV file is written if and only if the call returns a path, which
\* is the complete file written; every path that returns None or raises
\* before the write never enters df.to_csv and leaves the files as they
\* were. When df.to_csv raises, the call raises RuntimeError and the file at
\* the output path is either as before or a truncated file of this call; no
\* other file is touched. df.to_csv is entered at most once and only after
\* the query ran and the size and empty-result checks passed.
C11_WrittenIffPathReturnedUnlessWriteRaised ==
    ExtractDone =>
        /\ PathIsFileWritten
        /\ (~ReturnsPath /\ ~WriteRaised) => (FilesUnchanged /\ ~WriteAttempted)
        /\ WriteRaised =>
              /\ outcome.exc = "RuntimeError"
              /\ outcome.cause = call.world.exc
              /\ OthersUnchanged
              /\ \/ FilesUnchanged
                 \/ /\ ExpectedPath \in DOMAIN csvfs.files
                    /\ csvfs.files[ExpectedPath] =
                          [rows |-> call.world.df.rows, header |-> TRUE,
                           complete |-> FALSE]
        /\ WriteOnceAfterChecks

\* a table of exactly 2 GiB with rows was written under a time-stamped name
\* and that path returned, next to an older file that was left alone
C11_Witness ==
    /\ ReturnsPath
    /\ call.args.limit_bytes
    /\ call.args.suffix_timestamp
    /\ call.world.df = [rows |-> 2, size |-> [gib |-> 2, rem |-> 0]]
    /\ outcome.value = PyStr(<<"out", "/", "events", "_", "1", ".", "csv">>)
    /\ csvfs.files[<<"out", "/", "events", "_", "1", ".", "csv">>].rows = 2
    /\ <<"out", "/", "events", ".", "csv">> \in DOMAIN pre.csvfs.files
    /\ csvfs.files[<<"out", "/", "events", ".", "csv">>]
          = pre.csvfs.files[<<"out", "/", "events", ".", "csv">>]

\* df.to_csv raised after opening the file: the call raised RuntimeError and
\* a truncated file is left at the output path
C11_WriteRaisedLeavesFile ==
    /\ WriteRaised
    /\ call.world.partial
    /\ outcome.exc = "RuntimeError"
    /\ ~FilesUnchanged
    /\ ~csvfs.files[ExpectedPath].complete

----------------------------------------------------------------------------
OpenAIDone == pc = "done" /\ call.fn = "call_openai_api"

\* the prompt is empty or no str
BadPrompt(v) == v.t # "str" \/ v.s = <<>>

\* max_tokens is no integer (a bool counts as one, as for isinstance) or
\* lies outside 1..4096
BadMaxTokens(v) ==
    \/ v.t \in {"none", "str", "float"}
    \/ (v.t = "int" /\ (v.n < 1 \/ v.n > 4096))
    \/ (v.t = "bool" /\ ~v.b)

\* the call returned an error string
ReturnedError ==
    /\ outcome.exc = NoExc
    /\ outcome.value.t = "str"
    /\ outcome.value.s # <<>>
    /\ Head(outcome.value.s) \in {"Erreur", "Erreur inattendue lors de l'appel a l'API"}

\* C8: for a prompt that is empty or no str, or a max_tokens that is no
\* integer or outside (0, 4096], call_openai_api returns an error string,
\* does not raise, and neither constructs the client nor issues the request.
C8_InvalidInputNoNetwork ==
    (OpenAIDone /\ (BadPrompt(call.prompt) \/ BadMaxTokens(call.max_tokens))) =>
        /\ ReturnedError
        /\ ~Occurs(outcome.events, "AzureOpenAI")
        /\ ~Occurs(outcome.events, "create")

\* max_tokens one above the limit was refused for a usable prompt, with a
\* library that would have answered
C8_Witness ==
    /\ OpenAIDone
    /\ call.prompt = PyStr(<<"hello">>)
    /\ call.max_tokens = PyInt(4097)
    /\ call.world.ctor = NoExc /\ call.world.req = NoExc
    /\ call.world.content = PyStr(<<"theme">>)
    /\ ReturnedError

\* C9: with valid inputs, any failure of client construction makes the
\* function return an error string embedding the cause, without raising and
\* without issuing the request; the function leaves only by returning a str,
\* for every failure of construction and of the remote call.
C9_NeverRaises ==
    OpenAIDone =>
        /\ outcome.exc = NoExc
        /\ outcome.value.t = "str"
        /\ (~BadPrompt(call.prompt) /\ ~BadMaxTokens(call.max_tokens)
              /\ call.world.ctor # NoExc) =>
                /\ ReturnedError
                /\ Occurs(outcome.value.s, call.world.ctor)
                /\ ~Occurs(outcome.events, "create")

----------------------------------------------------------------------------
LatestDone == pc = "done" /\ call.fn = "get_latest_file_by_keyword"

\* name is  <anything> keyword <anything> extension  and is not hidden
NameMatches(name, keyword, extension) ==
    /\ name # <<>> /\ Head(name) # "."
    /\ \E i \in 0..Len(name), j \in 0..Len(name) :
          /\ i + Len(keyword) <= j
          /\ SubSeq(name, i + 1, i + Len(keyword)) = keyword
          /\ SubSeq(name, j + 1, Len(name)) = extension

\* the indices of the entries of the directory named in the call that match
MatchingEntries ==
    {i \in 1..Len(listing[call.directory.s].entries) :
        NameMatches(listing[call.directory.s].entries[i].name,
                    call.keyword.s, call.extension.s)}

\* the call got a non-empty keyword, an extension starting with a dot and a
\* readable existing directory, none of whose entries is a dangling link
LatestPrecondition ==
    /\ LatestDone
    /\ call.keyword.t = "str" /\ call.keyword.s # <<>>
    /\ call.extension.t = "str" /\ call.extension.s # <<>>
    /\ Head(call.extension.s) = "."
    /\ call.directory.s \in DOMAIN listing
    /\ listing[call.directory.s].state = "ok"
    /\ \A i \in 1..Len(listing[call.directory.s].entries) :
          ~listing[call.directory.s].entries[i].dangling

\* C10: for a non-empty keyword, an extension starting with a dot and a
\* readable existing directory, get_latest_file_by_keyword returns the name
\* of an entry of that directory of the greatest modification time among
\* those matching *keyword*extension, and None exactly when none matches.
C10_LatestOfDirectory ==
    LatestPrecondition =>
        LET es == listing[call.directory.s].entries IN
        /\ outcome.exc = NoExc
        /\ IF MatchingEntries = {} THEN outcome.value = PyNone
           ELSE \E i \in MatchingEntries :
                   /\ outcome.value = PyStr(es[i].name)
                   /\ \A j \in MatchingEntries : es[j].mtime <= es[i].mtime

====
